---- MODULE Spec2Model ----
(***************************************************************************)
(* The bootstrap of the pybinding package: pybinding/__init__.py.          *)
(*                                                                         *)
(* The module body is a straight line of import statements with one        *)
(* platform-conditional block that loads scipy.sparse.linalg and then ORs  *)
(* RTLD_GLOBAL into the process-wide dlopen flags.  The body runs under    *)
(* the interpreter's per-module import lock; a failed statement raises out *)
(* of the body and the import system drops the package from sys.modules.   *)
(*                                                                         *)
(* Module names: "pybinding" is the package, a short name such as "model"  *)
(* in sys_modules stands for the submodule pybinding.model, and            *)
(* "support.pickle" for pybinding.support.pickle.                          *)
(***************************************************************************)
EXTENDS Integers, Sequences, FiniteSets

(* ------------------------------ bounds --------------------------------- *)

\* Threads of the process that execute `import pybinding`.
NumThreads == 2
\* Import statements / reloads of the package issued in one behaviour.
MaxImports == 3
\* The initial dlopen flags range over 0..MaxLowFlags, with or without
\* the RTLD_GLOBAL bit.
MaxLowFlags == 1

(* --------------------------- program constants -------------------------- *)

\* os.RTLD_GLOBAL on Linux (0x100), the bit line 10 ORs into the flags.
RTLD_GLOBAL == 256

\* The literal "linux" of line 3, as a sequence of characters.
LinuxPrefix == <<"l", "i", "n", "u", "x">>

\* Values of sys.platform the process may run with.
Platforms ==
    { <<"l", "i", "n", "u", "x">>,
      <<"l", "i", "n", "u", "x", "2">>,
      <<"d", "a", "r", "w", "i", "n">> }

\* The platforms that are Linux-family, written out (not computed by the
\* code's test), so that the properties do not depend on that test.
LinuxPlatforms ==
    { <<"l", "i", "n", "u", "x">>, <<"l", "i", "n", "u", "x", "2">> }

Threads == 1 .. NumThreads

NoThread == 0
NoFlags == -1
NoModule == "none"

(* ------------------------------ bit algebra ----------------------------- *)

RECURSIVE BitOr(_, _)
\* Python's a | b on non-negative integers.
BitOr(a, b) ==
    IF a = 0 THEN b
    ELSE IF b = 0 THEN a
    ELSE (IF a % 2 = 1 \/ b % 2 = 1 THEN 1 ELSE 0) + 2 * BitOr(a \div 2, b \div 2)

RECURSIVE BitAnd(_, _)
\* a & b on non-negative integers (used by the properties only).
BitAnd(a, b) ==
    IF a = 0 \/ b = 0 THEN 0
    ELSE (IF a % 2 = 1 /\ b % 2 = 1 THEN 1 ELSE 0) + 2 * BitAnd(a \div 2, b \div 2)

(* ------------------------------ the module body ------------------------- *)

\* Variant of the test of line 3: the content of the prefix is not compared.
StartsWith_Loose(s, prefix) ==
    Len(s) >= Len(prefix)

\* str.startswith
StartsWith(s, prefix) ==
    /\ Len(s) >= Len(prefix)
    /\ SubSeq(s, 1, Len(prefix)) = prefix

\* Variant of the body: the flags are written before scipy.sparse.linalg is
\* imported (lines 9 and 10 exchanged).
Body_Swapped ==
    << "import_os", "import_sys", "platform_check",
       "getdlopenflags", "setdlopenflags", "import_scipy",
       "import_cpp", "from_model", "from_lattice", "from_modifier",
       "from_results", "from_pickle", "from_parallel", "from_package" >>

\* The statements of the module body in program order.  Line 10 is two
\* steps: the call of sys.getdlopenflags() and the call of
\* sys.setdlopenflags().
Body ==
    << "import_os",        \* line 1
       "import_sys",       \* line 2
       "platform_check",   \* line 3
       "import_scipy",     \* line 9
       "getdlopenflags",   \* line 10, argument
       "setdlopenflags",   \* line 10, call
       "import_cpp",       \* line 12
       "from_model",       \* line 14
       "from_lattice",     \* line 15
       "from_modifier",    \* line 16
       "from_results",     \* line 17
       "from_pickle",      \* line 18
       "from_parallel",    \* line 19
       "from_package" >>   \* lines 21-22

\* The names of `from . import (...)`, lines 21-22, in order.
Submodules ==
    << "constants", "electric", "greens", "lattice", "model", "parallel",
       "pltutils", "results", "shape", "solver", "symmetry", "system" >>

SubmoduleSet == { Submodules[i] : i \in 1 .. Len(Submodules) }

\* Names the modifier submodule may define for `from .modifier import *`.
WildcardUniverse == { "site_state_modifier" }

\* Variant of the from-imports: line 19 forgets parallelize.
FromImports_Missing(wild) ==
    [ from_model    |-> [mod |-> "model",          attr |-> "model",
                         names |-> {"Model"}],
      from_lattice  |-> [mod |-> "lattice",        attr |-> "lattice",
                         names |-> {"Lattice", "make_lattice"}],
      from_modifier |-> [mod |-> "modifier",       attr |-> "modifier",
                         names |-> wild],
      from_results  |-> [mod |-> "results",        attr |-> "results",
                         names |-> {"make_path"}],
      from_pickle   |-> [mod |-> "support.pickle", attr |-> "support",
                         names |-> {"save", "load"}],
      from_parallel |-> [mod |-> "parallel",       attr |-> "parallel",
                         names |-> {"parallel_for"}] ]

\* What each from-import of lines 14-19 loads and binds:
\*   mod    the module imported,
\*   attr   the attribute the import system sets on the package when it
\*          loads the (top-most) submodule,
\*   names  the names the statement binds in the package namespace.
FromImports(wild) ==
    [ from_model    |-> [mod |-> "model",          attr |-> "model",
                         names |-> {"Model"}],
      from_lattice  |-> [mod |-> "lattice",        attr |-> "lattice",
                         names |-> {"Lattice", "make_lattice"}],
      from_modifier |-> [mod |-> "modifier",       attr |-> "modifier",
                         names |-> wild],
      from_results  |-> [mod |-> "results",        attr |-> "results",
                         names |-> {"make_path"}],
      from_pickle   |-> [mod |-> "support.pickle", attr |-> "support",
                         names |-> {"save", "load"}],
      from_parallel |-> [mod |-> "parallel",       attr |-> "parallel",
                         names |-> {"parallel_for", "parallelize"}] ]

FromStmts ==
    { "from_model", "from_lattice", "from_modifier", "from_results",
      "from_pickle", "from_parallel" }

\* Position of a statement in the body.
IndexOf(stmt) == CHOOSE i \in 1 .. Len(Body) : Body[i] = stmt

\* The statement control reaches after stmt completes normally.
NextStmt(stmt) ==
    IF IndexOf(stmt) = Len(Body) THEN "done" ELSE Body[IndexOf(stmt) + 1]

\* Variant: line 10 dedented out of the `if` block, so that it runs on
\* every platform.
AfterIf_Dedented == "getdlopenflags"

\* The statement after the `if` block of lines 3-10.
AfterIf == "import_cpp"

(* ------------------------------ state ----------------------------------- *)

VARIABLES
    platform,      \* sys.platform
    flags,         \* the process-wide dlopen flags (sys.getdlopenflags())
    sys_modules,   \* sys.modules: the modules loaded and cached
    namespace,     \* names bound in the package's module object
    modifier_all,  \* the names `from .modifier import *` copies
    lock,          \* holder of the import lock of "pybinding"
    reloading,     \* the lock holder re-executes the body of the loaded package
    pc,            \* per thread: "idle", a statement of Body, "done", "failed"
    idx,           \* position of the lock holder in the list of lines 21-22
    tmp,           \* the value sys.getdlopenflags() returned to the running body
    exc,           \* the module whose load raised during the latest import, or NoModule
    flags0,        \* history: the flags before the first import
    loadlog,       \* history: the loads the bootstrap triggered, with the flags then
    nimports,      \* history: import statements and reloads started
    nwrites,       \* history: calls of sys.setdlopenflags by the bootstrap
    run_writes,    \* history: those calls within the current execution of the body
    first_flags    \* history: the flags when the first import succeeded

vars ==
    << platform, flags, sys_modules, namespace, modifier_all, lock, reloading,
       pc, idx, tmp, exc, flags0, loadlog, nimports, nwrites, run_writes,
       first_flags >>

env == << platform, modifier_all, flags0 >>

InitialFlags ==
    { lo + hi * RTLD_GLOBAL : lo \in 0 .. MaxLowFlags, hi \in 0 .. 1 }

Init ==
    /\ platform \in Platforms
    /\ flags \in InitialFlags
    /\ flags0 = flags
    \* the application may have imported scipy.sparse.linalg already
    /\ sys_modules \in { {}, {"scipy.sparse.linalg"} }
    /\ namespace = {}
    /\ modifier_all \in SUBSET WildcardUniverse
    /\ lock = NoThread
    /\ reloading = FALSE
    /\ pc = [t \in Threads |-> "idle"]
    /\ idx = 1
    /\ tmp = NoFlags
    /\ exc = NoModule
    /\ loadlog = << >>
    /\ nimports = 0
    /\ nwrites = 0
    /\ run_writes = 0
    /\ first_flags = NoFlags

(* ------------------------------ import system --------------------------- *)

\* `import pybinding` in thread t.  The import system takes the module's
\* lock; a package found in sys.modules is returned as it is, otherwise a
\* fresh module object is registered and its body is executed.
BeginImport(t) ==
    /\ pc[t] \in {"idle", "done", "failed"}
    /\ lock = NoThread
    /\ nimports < MaxImports
    /\ nimports' = nimports + 1
    /\ exc' = NoModule
    /\ IF "pybinding" \in sys_modules
       THEN /\ pc' = [pc EXCEPT ![t] = "done"]
            /\ UNCHANGED << sys_modules, namespace, lock, run_writes >>
       ELSE /\ pc' = [pc EXCEPT ![t] = Body[1]]
            /\ sys_modules' = sys_modules \cup {"pybinding"}
            /\ namespace' = {}
            /\ lock' = t
            /\ run_writes' = 0
    /\ UNCHANGED << env, flags, reloading, idx, tmp, loadlog, nwrites, first_flags >>

\* importlib.reload(pybinding) in a thread that holds the imported package:
\* the body is executed again in the same module object.
Reload(t) ==
    /\ pc[t] = "done"
    /\ "pybinding" \in sys_modules
    /\ lock = NoThread
    /\ nimports < MaxImports
    /\ nimports' = nimports + 1
    /\ lock' = t
    /\ reloading' = TRUE
    /\ run_writes' = 0
    /\ pc' = [pc EXCEPT ![t] = Body[1]]
    /\ UNCHANGED << env, flags, sys_modules, namespace, idx, tmp, exc, loadlog,
                    nwrites, first_flags >>

\* Variant of the failure path: the flags are put back to their initial
\* value before the exception leaves the body (try/finally).
Raise_Rollback(t, mod) ==
    /\ pc' = [pc EXCEPT ![t] = "failed"]
    /\ exc' = mod
    /\ lock' = NoThread
    /\ reloading' = FALSE
    /\ idx' = 1
    /\ tmp' = NoFlags
    /\ flags' = flags0
    /\ IF reloading
       THEN UNCHANGED << sys_modules, namespace >>
       ELSE /\ sys_modules' = sys_modules \ {"pybinding"}
            /\ namespace' = {}

\* An exception leaves the module body: nothing in the body catches it.
\* The import system removes the half-initialised package from sys.modules
\* (a failed reload leaves the old entry) and releases the lock; the
\* exception reaches the importer.  The dlopen flags are left as they are.
Raise(t, mod) ==
    /\ pc' = [pc EXCEPT ![t] = "failed"]
    /\ exc' = mod
    /\ lock' = NoThread
    /\ reloading' = FALSE
    /\ idx' = 1
    /\ tmp' = NoFlags
    /\ flags' = flags
    /\ IF reloading
       THEN UNCHANGED << sys_modules, namespace >>
       ELSE /\ sys_modules' = sys_modules \ {"pybinding"}
            /\ namespace' = {}

\* The body ran to its end: the import statement returns the package.
Finish(t) ==
    /\ pc[t] = "done"
    /\ lock = t
    /\ lock' = NoThread
    /\ reloading' = FALSE
    /\ first_flags' = IF first_flags = NoFlags THEN flags ELSE first_flags
    /\ UNCHANGED << env, flags, sys_modules, namespace, pc, idx, tmp, exc,
                    loadlog, nimports, nwrites, run_writes >>

\* An import statement of the body for module mod, at statement stmt,
\* continuing at next: a cached module is taken from sys.modules, otherwise
\* it is loaded now (under the current dlopen flags), which may raise.
\* attrs are set on the package when the load happens, names are bound by
\* the statement itself.
ImportModule(t, mod, attrs, names, next, nextidx) ==
    \/ /\ mod \in sys_modules
       /\ namespace' = namespace \cup names
       /\ pc' = [pc EXCEPT ![t] = next]
       /\ idx' = nextidx
       /\ UNCHANGED << flags, sys_modules, loadlog, lock, reloading, tmp, exc >>
    \/ /\ mod \notin sys_modules
       /\ sys_modules' = sys_modules \cup {mod}
       /\ loadlog' = Append(loadlog, [mod |-> mod, flags |-> flags])
       /\ namespace' = namespace \cup attrs \cup names
       /\ pc' = [pc EXCEPT ![t] = next]
       /\ idx' = nextidx
       /\ UNCHANGED << flags, lock, reloading, tmp, exc >>
    \/ /\ mod \notin sys_modules
       /\ Raise(t, mod)
       /\ UNCHANGED loadlog

(* ------------------------------ statements ------------------------------ *)

\* line 1: import os
ImportOs(t) ==
    /\ pc[t] = "import_os"
    /\ namespace' = namespace \cup {"os"}
    /\ pc' = [pc EXCEPT ![t] = NextStmt("import_os")]
    /\ UNCHANGED << env, flags, sys_modules, lock, reloading, idx, tmp, exc,
                    loadlog, nimports, nwrites, run_writes, first_flags >>

\* line 2: import sys
ImportSys(t) ==
    /\ pc[t] = "import_sys"
    /\ namespace' = namespace \cup {"sys"}
    /\ pc' = [pc EXCEPT ![t] = NextStmt("import_sys")]
    /\ UNCHANGED << env, flags, sys_modules, lock, reloading, idx, tmp, exc,
                    loadlog, nimports, nwrites, run_writes, first_flags >>

\* line 3: if sys.platform.startswith("linux"):
PlatformCheck(t) ==
    /\ pc[t] = "platform_check"
    /\ pc' = [pc EXCEPT ![t] =
                IF StartsWith(platform, LinuxPrefix)
                THEN NextStmt("platform_check")
                ELSE AfterIf]
    /\ UNCHANGED << env, flags, sys_modules, namespace, lock, reloading, idx,
                    tmp, exc, loadlog, nimports, nwrites, run_writes,
                    first_flags >>

\* Variant of line 9: the import is wrapped in try/except and a failure is
\* swallowed.
ImportScipy_Guarded(t) ==
    /\ pc[t] = "import_scipy"
    /\ \/ /\ ImportModule(t, "scipy.sparse.linalg", {}, {"scipy"},
                          NextStmt("import_scipy"), idx)
          /\ pc'[t] # "failed"
       \/ /\ "scipy.sparse.linalg" \notin sys_modules
          /\ exc' = "scipy.sparse.linalg"
          /\ pc' = [pc EXCEPT ![t] = NextStmt("import_scipy")]
          /\ UNCHANGED << flags, sys_modules, namespace, lock, reloading, idx,
                          tmp, loadlog >>
    /\ UNCHANGED << env, nimports, nwrites, run_writes, first_flags >>

\* line 9: import scipy.sparse.linalg
ImportScipy(t) ==
    /\ pc[t] = "import_scipy"
    /\ ImportModule(t, "scipy.sparse.linalg", {}, {"scipy"},
                    NextStmt("import_scipy"), idx)
    /\ UNCHANGED << env, nimports, nwrites, run_writes, first_flags >>

\* line 10, the argument: sys.getdlopenflags()
GetDlopenFlags(t) ==
    /\ pc[t] = "getdlopenflags"
    /\ tmp' = flags
    /\ pc' = [pc EXCEPT ![t] = NextStmt("getdlopenflags")]
    /\ UNCHANGED << env, flags, sys_modules, namespace, lock, reloading, idx,
                    exc, loadlog, nimports, nwrites, run_writes, first_flags >>

\* Variant of line 10: the flags are replaced by RTLD_GLOBAL alone.
NewFlags_Drop(old) == RTLD_GLOBAL

\* Variant of line 10: the bit is toggled (^) instead of set (|).
NewFlags_Toggle(old) ==
    IF BitAnd(old, RTLD_GLOBAL) = RTLD_GLOBAL
    THEN old - RTLD_GLOBAL
    ELSE old + RTLD_GLOBAL

\* The value line 10 passes to sys.setdlopenflags.
NewFlags(old) == BitOr(old, RTLD_GLOBAL)

\* line 10, the call: sys.setdlopenflags(<flags read> | os.RTLD_GLOBAL)
SetDlopenFlags(t) ==
    /\ pc[t] = "setdlopenflags"
    /\ flags' = NewFlags(tmp)
    /\ tmp' = NoFlags
    /\ nwrites' = nwrites + 1
    /\ run_writes' = run_writes + 1
    /\ pc' = [pc EXCEPT ![t] = NextStmt("setdlopenflags")]
    /\ UNCHANGED << env, sys_modules, namespace, lock, reloading, idx, exc,
                    loadlog, nimports, first_flags >>

\* Variant of line 12: after the extension is imported the flags are reset
\* to their earlier value (what the comment of lines 7-8 rules out).
ImportCpp_Reset(t) ==
    /\ pc[t] = "import_cpp"
    /\ \/ /\ "_pybinding" \in sys_modules
          /\ namespace' = namespace \cup {"_cpp"}
          /\ pc' = [pc EXCEPT ![t] = NextStmt("import_cpp")]
          /\ flags' = flags0
          /\ nwrites' = nwrites + 1
          /\ run_writes' = run_writes + 1
          /\ UNCHANGED << sys_modules, loadlog, lock, reloading, idx, tmp, exc >>
       \/ /\ "_pybinding" \notin sys_modules
          /\ sys_modules' = sys_modules \cup {"_pybinding"}
          /\ loadlog' = Append(loadlog, [mod |-> "_pybinding", flags |-> flags])
          /\ namespace' = namespace \cup {"_cpp"}
          /\ pc' = [pc EXCEPT ![t] = NextStmt("import_cpp")]
          /\ flags' = flags0
          /\ nwrites' = nwrites + 1
          /\ run_writes' = run_writes + 1
          /\ UNCHANGED << lock, reloading, idx, tmp, exc >>
       \/ /\ "_pybinding" \notin sys_modules
          /\ Raise(t, "_pybinding")
          /\ UNCHANGED << loadlog, nwrites, run_writes >>
    /\ UNCHANGED << env, nimports, first_flags >>

\* line 12: import _pybinding as _cpp
ImportCpp(t) ==
    /\ pc[t] = "import_cpp"
    /\ ImportModule(t, "_pybinding", {}, {"_cpp"}, NextStmt("import_cpp"), idx)
    /\ UNCHANGED << env, nimports, nwrites, run_writes, first_flags >>

\* lines 14-19: from .<submodule> import <names>
FromImport(t) ==
    /\ pc[t] \in FromStmts
    /\ LET s == FromImports(modifier_all)[pc[t]]
       IN ImportModule(t, s.mod, {s.attr}, s.names, NextStmt(pc[t]), idx)
    /\ UNCHANGED << env, nimports, nwrites, run_writes, first_flags >>

\* Variant of lines 21-22: the statement is wrapped in try/except, a
\* submodule that fails to load is skipped and the body runs on.
FromPackage_Guarded(t) ==
    /\ pc[t] = "from_package"
    /\ LET m == Submodules[idx]
           last == idx = Len(Submodules)
       IN \/ /\ ImportModule(t, m, {m}, {m},
                       IF last THEN NextStmt("from_package") ELSE "from_package",
                       IF last THEN 1 ELSE idx + 1)
             /\ pc'[t] # "failed"
          \/ /\ m \notin sys_modules
             /\ exc' = m
             /\ pc' = [pc EXCEPT ![t] = NextStmt("from_package")]
             /\ idx' = 1
             /\ UNCHANGED << flags, sys_modules, namespace, lock, reloading,
                             tmp, loadlog >>
    /\ UNCHANGED << env, nimports, nwrites, run_writes, first_flags >>

\* lines 21-22: from . import (constants, ..., system), one name per step
FromPackage(t) ==
    /\ pc[t] = "from_package"
    /\ LET m == Submodules[idx]
           last == idx = Len(Submodules)
       IN ImportModule(t, m, {m}, {m},
                       IF last THEN NextStmt("from_package") ELSE "from_package",
                       IF last THEN 1 ELSE idx + 1)
    /\ UNCHANGED << env, nimports, nwrites, run_writes, first_flags >>

Next ==
    \E t \in Threads :
        \/ BeginImport(t)
        \/ Reload(t)
        \/ Finish(t)
        \/ ImportOs(t)
        \/ ImportSys(t)
        \/ PlatformCheck(t)
        \/ ImportScipy(t)
        \/ GetDlopenFlags(t)
        \/ SetDlopenFlags(t)
        \/ ImportCpp(t)
        \/ FromImport(t)
        \/ FromPackage(t)

Spec == Init /\ [][Next]_vars

(* ------------------------------ properties ------------------------------ *)

IsLinux == platform \in LinuxPlatforms

HasGlobal(f) == BitAnd(f, RTLD_GLOBAL) = RTLD_GLOBAL

\* Some import statement has returned the package (and no body is being
\* finished by the thread that is "done").
Returned(t) == pc[t] = "done" /\ lock # t

\* The names lines 14-19 re-export, without the wildcard's.
ExportedNames ==
    { "Model", "Lattice", "make_lattice", "make_path", "save", "load",
      "parallel_for", "parallelize" }

\* The sibling modules the bootstrap imports.
Siblings == SubmoduleSet \cup {"modifier", "support.pickle"}

\* The submodules lines 14-19 import from.
FromImported ==
    { "model", "lattice", "modifier", "results", "support.pickle", "parallel" }

\* The submodules that only lines 21-22 import.
ListedOnly == SubmoduleSet \ FromImported

Loaded(mod, i) == \E j \in 1 .. i - 1 : loadlog[j].mod = mod

\* C1: on a Linux-family platform a successful import ends with the flags
\* equal to F | RTLD_GLOBAL, F the flags before the import: the RTLD_GLOBAL
\* bit is set and every bit of F is still set.
C1_LinuxSetsGlobal ==
    \A t \in Threads :
        (IsLinux /\ pc[t] = "done") =>
            /\ flags = BitOr(flags0, RTLD_GLOBAL)
            /\ HasGlobal(flags)
            /\ BitAnd(flags, flags0) = flags0
            /\ flags - flags0 \in {0, RTLD_GLOBAL}

C1_Witness ==
    /\ IsLinux
    /\ \E t \in Threads : Returned(t)
    /\ flags0 = 1
    /\ flags = 257

\* C2: on a platform that is not Linux-family the bootstrap never writes
\* the flags: in every state of the import, successful or failed, they
\* have their initial value.
C2_OtherPlatformFlagsUntouched ==
    ~IsLinux => (flags = flags0 /\ nwrites = 0)

C2_Witness ==
    /\ ~IsLinux
    /\ \E t \in Threads : Returned(t)
    /\ \E t \in Threads : pc[t] = "failed"

\* C3: the steps happen in a fixed order.  On Linux scipy.sparse.linalg is
\* loaded under the initial flags, RTLD_GLOBAL is OR-ed in only after that,
\* and the extension is loaded only with RTLD_GLOBAL set; on every platform
\* the extension is loaded before any sibling submodule, the re-exported
\* names are bound before the list of lines 21-22 is imported, and the
\* submodules only that list names are loaded after all the from-imports.
C3_BootstrapOrder ==
    /\ \A i \in 1 .. Len(loadlog) :
        LET e == loadlog[i] IN
        /\ e.mod = "scipy.sparse.linalg" =>
               (IsLinux /\ e.flags = flags0 /\ i = 1)
        /\ (IsLinux /\ e.mod = "_pybinding") =>
               (HasGlobal(e.flags) /\ "scipy.sparse.linalg" \in sys_modules)
        /\ e.mod \in Siblings => Loaded("_pybinding", i)
        /\ e.mod \in ListedOnly =>
               \A m \in FromImported : Loaded(m, i)
    /\ (IsLinux /\ nwrites > 0) => "scipy.sparse.linalg" \in sys_modules
    /\ \A t \in Threads :
        pc[t] = "from_package" =>
            /\ ExportedNames \cup modifier_all \subseteq namespace
            /\ "_pybinding" \in sys_modules

C3_Witness ==
    /\ IsLinux
    /\ ~HasGlobal(flags0)
    /\ Len(loadlog) = 16
    /\ \E t \in Threads : Returned(t)

\* C4: when the load of one of the twelve submodules fails, the import of
\* the package fails: the error reaches the importer, the package is not
\* in sys.modules and nothing of its namespace is left.
C4_SubmoduleFailureIsFatal ==
    exc \in SubmoduleSet =>
        /\ \E t \in Threads : pc[t] = "failed"
        /\ "pybinding" \notin sys_modules
        /\ namespace = {}
        /\ lock = NoThread
        /\ \A t \in Threads : pc[t] # "done"

C4_Witness ==
    /\ exc = "solver"
    /\ {"constants", "model", "shape"} \subseteq sys_modules

\* C5: once the package has been imported, a further import or a further
\* execution of the module body does not raise and leaves the flags as the
\* first import left them.
C5_ReimportIdempotent ==
    [][first_flags # NoFlags =>
          /\ flags' = first_flags
          /\ first_flags' = first_flags
          /\ exc' = NoModule
          /\ \A t \in Threads : pc'[t] = "failed" => pc[t] = "failed"]_vars

C5_Witness ==
    /\ IsLinux
    /\ reloading
    /\ lock # NoThread
    /\ pc[lock] = "done"
    /\ run_writes = 1
    /\ nwrites = 2
    /\ flags = first_flags

\* C6 as stated: after a successful import the namespace holds exactly the
\* eight re-exported names, the wildcard's names and the twelve submodules.
C6_ExactlyTheNames ==
    \A t \in Threads :
        pc[t] = "done" =>
            namespace = ExportedNames \cup modifier_all \cup SubmoduleSet

\* C6, amended: after a successful import the namespace holds the eight
\* re-exported names, the wildcard's names and the twelve submodules, and
\* besides them the names os, sys and _cpp that lines 1, 2 and 12 bind.
C6_ExposesTheNames ==
    \A t \in Threads :
        pc[t] = "done" =>
            /\ ExportedNames \cup modifier_all \cup SubmoduleSet \subseteq namespace
            /\ {"os", "sys", "_cpp"} \subseteq namespace

C6_Witness ==
    /\ \E t \in Threads : Returned(t)
    /\ modifier_all # {}
    /\ modifier_all \subseteq namespace
    /\ "parallelize" \in namespace

\* C7 as stated: the bootstrap writes the flags exactly once.
C7_WrittenExactlyOnce ==
    (\E t \in Threads : Returned(t)) => nwrites = 1

\* C7, amended: one execution of the module body writes the flags at most
\* once - once on Linux when line 10 is reached, never on another
\* platform - and between the read and the write of line 10 no other
\* execution of the bootstrap writes them: only the holder of the import
\* lock is inside the body.
C7_OneUncontendedWrite ==
    /\ run_writes <= 1
    /\ \A t \in Threads :
        /\ pc[t] \in { Body[i] : i \in 1 .. Len(Body) } => lock = t
        /\ pc[t] = "setdlopenflags" => (tmp = flags /\ run_writes = 0)
        /\ (lock = t /\ pc[t] \in FromStmts \cup {"import_cpp", "from_package", "done"})
               => run_writes = (IF IsLinux THEN 1 ELSE 0)

C7_Witness ==
    /\ lock # NoThread
    /\ pc[lock] = "setdlopenflags"
    /\ nwrites = 1
    /\ \E t \in Threads : pc[t] = "failed"

\* C8: once the bootstrap has set RTLD_GLOBAL the bit stays set in every
\* later state of the bootstrap, whether the import goes on, succeeds or
\* fails; the flags are never put back.
C8_GlobalBitStays ==
    nwrites > 0 => (HasGlobal(flags) /\ flags # flags0 - RTLD_GLOBAL)

C8_Witness ==
    /\ nwrites > 0
    /\ ~HasGlobal(flags0)
    /\ \E t \in Threads : pc[t] = "from_package"
    /\ idx = Len(Submodules)

\* C9: on Linux a failed load of the extension or of a later submodule does
\* not roll the flags back: the import has failed, the package is not
\* available, and the flags are initial | RTLD_GLOBAL.
C9_NoRollbackOnFailure ==
    (IsLinux /\ exc \notin {NoModule, "scipy.sparse.linalg"}) =>
        /\ flags = BitOr(flags0, RTLD_GLOBAL)
        /\ "pybinding" \notin sys_modules
        /\ \E t \in Threads : pc[t] = "failed"

C9_Witness ==
    /\ IsLinux
    /\ exc = "_pybinding"
    /\ flags # flags0
    /\ "pybinding" \notin sys_modules

\* C10: on Linux, when loading scipy.sparse.linalg fails the import fails
\* before any write of the flags: they have their initial value, the
\* extension has not been loaded and no sibling submodule imported.
C10_ScipyFailureBeforeWrite ==
    exc = "scipy.sparse.linalg" =>
        /\ IsLinux
        /\ \E t \in Threads : pc[t] = "failed"
        /\ flags = flags0
        /\ nwrites = 0
        /\ "_pybinding" \notin sys_modules
        /\ sys_modules \cap Siblings = {}
        /\ "pybinding" \notin sys_modules
        /\ loadlog = << >>

C10_Witness ==
    /\ exc = "scipy.sparse.linalg"
    /\ \E t \in Threads : pc[t] = "failed"
    /\ namespace = {}
====
